---- MODULE Spec2Model ----
(***************************************************************************)
(* NuleculeManager (atomicapp/nulecule/main.py): the lifecycle controller  *)
(* of a Nulecule application and its answer resolution.                    *)
(*                                                                         *)
(* Python dictionaries are functions whose DOMAIN is the set of keys.  An  *)
(* answers document maps section names to dictionaries of key/value        *)
(* strings.  Object identity matters in two places of the source and is    *)
(* modelled explicitly: nulecule.config may be the very object that        *)
(* self.answers references (nulecule.shares), and _get_runtime_answers     *)
(* puts the caller's global dictionary, not a copy, into its result.       *)
(*                                                                         *)
(* Paths are symbolic: the rewriting of absolute paths under               *)
(* Utils.getRoot() (lines 51-60) renames a path and is not represented.    *)
(* The serialisation format (answers_format) is not represented either: a  *)
(* file holds the document that was written to it.                         *)
(***************************************************************************)
EXTENDS Naturals, Sequences, FiniteSets, TLC

VARIABLES
    pc,               \* position of the caller / of the running method
    env,              \* the arguments of __init__ and the host's state
    fs,               \* the files the controller reads and writes
    tmp_created,      \* tempfile.mkdtemp has been called
    copied,           \* Utils.copy_dir has been called
    answers,          \* self.answers (the value of the object it references)
    cli_answers,      \* self.cli_answers
    answers_file,     \* self.answers_file
    app_path,         \* self.app_path
    image,            \* self.image
    nulecule,         \* self.nulecule and the object its config references
    op,               \* the arguments of the method being executed
    calls,            \* descriptor-engine calls made by the current method
    written,          \* paths the serialiser was given in the current method
    nops,             \* methods called so far
    err,              \* the exception the last method ended with
    rt                \* a stand-alone call of _get_runtime_answers

vars == <<pc, env, fs, tmp_created, copied, answers, cli_answers, answers_file,
          app_path, image, nulecule, op, calls, written, nops, err, rt>>

ctl == <<pc, env, fs, tmp_created, copied, answers, cli_answers, answers_file,
         app_path, image, nulecule, op, calls, written, nops, err>>

-----------------------------------------------------------------------------
(* Constants imported from atomicapp.constants.                            *)

GLOBAL_CONF == "general"
NAMESPACE_KEY == "namespace"
PROVIDER_KEY == "provider"
DEFAULT_NAMESPACE == "default"
ANSWERS_FILE == "answers.conf"
ANSWERS_FILE_SAMPLE == "answers.conf.sample"
ANSWERS_RUNTIME_FILE == "answers.conf.gen"
MAIN_FILE == "Nulecule"

(* Python's None for strings and paths, and the empty dictionary.          *)
None == "None"
NoPath == <<>>
EmptyDict == [k \in {} |-> k]

DEFAULT_ANSWERS == (GLOBAL_CONF :> (NAMESPACE_KEY :> DEFAULT_NAMESPACE))

-----------------------------------------------------------------------------
(* Dictionaries.                                                           *)

Has(d, k) == k \in DOMAIN d

\* d[k] = v
Put(d, k, v) == [x \in (DOMAIN d) \cup {k} |-> IF x = k THEN v ELSE d[x]]

\* d.get(k) or dflt, for string values: None and "" are falsy
GetOr(d, k, dflt) == IF Has(d, k) /\ d[k] # "" /\ d[k] # None THEN d[k] ELSE dflt

\* d.update(u)
Merge(d, u) == [x \in (DOMAIN d) \cup (DOMAIN u) |-> IF x \in DOMAIN u THEN u[x] ELSE d[x]]

\* truth value of a dictionary
Truthy(d) == DOMAIN d # {}

\* all dictionaries over the keys ks with values in vs
Dicts(ks, vs) == UNION {[s -> vs] : s \in SUBSET ks}

-----------------------------------------------------------------------------
(* _get_runtime_answers(config, cli_provider).  _config is a deep copy of   *)
(* config, but _config[GLOBAL_CONF] is then rebound to config's own global *)
(* dictionary whenever that one is non-empty, so the two assignments that  *)
(* follow write into the caller's document as well.  The result is the     *)
(* returned document together with the caller's document after the call.   *)

SharesGlobal(config) == Has(config, GLOBAL_CONF) /\ Truthy(config[GLOBAL_CONF])

\* a variant that defaults the namespace only when the key is missing
RuntimeGlobal_missing_only(config, cli_provider) ==
    LET g0 == IF SharesGlobal(config) THEN config[GLOBAL_CONF] ELSE EmptyDict
        g1 == IF Has(g0, NAMESPACE_KEY) THEN g0
              ELSE Put(g0, NAMESPACE_KEY, DEFAULT_NAMESPACE)
    IN  IF cli_provider # None /\ cli_provider # ""
        THEN Put(g1, PROVIDER_KEY, cli_provider)
        ELSE g1

RuntimeGlobal(config, cli_provider) ==
    LET g0 == IF SharesGlobal(config) THEN config[GLOBAL_CONF] ELSE EmptyDict
        g1 == Put(g0, NAMESPACE_KEY, GetOr(g0, NAMESPACE_KEY, DEFAULT_NAMESPACE))
    IN  IF cli_provider # None /\ cli_provider # ""
        THEN Put(g1, PROVIDER_KEY, cli_provider)
        ELSE g1

get_runtime_answers(config, cli_provider) ==
    [ret    |-> Put(config, GLOBAL_CONF, RuntimeGlobal(config, cli_provider)),
     config |-> IF SharesGlobal(config)
                THEN Put(config, GLOBAL_CONF, RuntimeGlobal(config, cli_provider))
                ELSE config]

-----------------------------------------------------------------------------
(* The file system.  A directory is a name; a path is <<directory, file>>. *)
(* app_spec names both the local directory (when it exists) and the image. *)

AppSpec == "app_spec"
Dest == "dest"
TmpDir == "tmp"
CacheDir == "cache"
Cwd == "cwd"
AppDirs == {AppSpec, Dest, TmpDir, CacheDir}
AppFiles == {MAIN_FILE, ANSWERS_FILE, ANSWERS_FILE_SAMPLE, ANSWERS_RUNTIME_FILE}
UserAnswers == <<"user", "my_answers.conf">>
ExportPath == <<"user", "exported.conf">>
CwdAnswers == <<Cwd, ANSWERS_FILE>>
Paths == (AppDirs \X AppFiles) \cup {CwdAnswers, UserAnswers, ExportPath}

NoFile == [exists |-> FALSE, data |-> EmptyDict]
File(doc) == [exists |-> TRUE, data |-> doc]

\* os.path.isfile / os.path.exists of a path
isfile(f, path) == f[path].exists

\* Utils.copy_dir(src, dest, update=True): the files of src replace those of dest
copy_dir(f, src, dest) ==
    [p \in Paths |-> IF p[1] = dest /\ p[2] \in AppFiles /\ f[<<src, p[2]>>].exists
                     THEN f[<<src, p[2]>>]
                     ELSE f[p]]

\* anymarkup.serialize_file(answers, path): overwrites whatever is there
serialize_file(f, path, doc) == [f EXCEPT ![path] = File(doc)]

-----------------------------------------------------------------------------
(* Inputs.                                                                 *)

\* the number of methods called on one controller
MaxOps == 2

\* an explicit answers file: missing, or naming a provider and no namespace
UserFileStates ==
    { NoFile,
      File((GLOBAL_CONF :> (PROVIDER_KEY :> "kubernetes"))) }
\* the answers file a bundle embeds: none, an empty one, or one naming a
\* provider and a namespace
BundleFileStates ==
    { NoFile,
      File(EmptyDict),
      File((GLOBAL_CONF :> ((PROVIDER_KEY :> "kubernetes") @@ (NAMESPACE_KEY :> "file-ns")))) }
CliAnswers ==
    { EmptyDict,
      (NAMESPACE_KEY :> "cli-ns"),
      (PROVIDER_KEY :> "docker") }
ProviderLists == { <<"docker">>, <<"docker", "kubernetes">> }
Destinations == {None, Dest, "none"}

\* the values platform detection takes from the environment (lines 106-110)
OPENSHIFT_PROVIDER == "openshift"
EnvToken == "env-token"
EnvNamespace == "pod-ns"
EnvProviderApi == "env-api"

\* the environment variables lines 107-108 read with os.environ[...]
TOKEN_ENV_VAR == "TOKEN_ENV_VAR"
POD_NAMESPACE == "POD_NAMESPACE"
EnvVars == {TOKEN_ENV_VAR, POD_NAMESPACE}

AllEnvs ==
    [ app_spec_exists : BOOLEAN,        \* os.path.exists(app_spec)
      destination     : Destinations,   \* the destination argument
      cli_answers     : CliAnswers,     \* the cli_answers argument (None is {})
      answers_file    : {NoPath, UserAnswers},  \* the answers_file argument
      user_answers    : UserFileStates, \* what is at that path
      bundle_answers  : BundleFileStates, \* the answers.conf the bundle embeds
      providers       : ProviderLists,  \* the providers the bundle supports
      openshift       : BOOLEAN,        \* Utils.running_on_openshift()
      environ         : SUBSET EnvVars, \* the variables set in os.environ
      app_dir_exists  : BOOLEAN ]       \* the image's destination or cache
                                        \* directory is there already

\* what lies at the answers_file path matters only when the path is given,
\* the environment variables are read only inside an OpenShift pod, and
\* whether the directory is there already matters only for an image that is
\* not given the 'none' destination (a local bundle's directory exists or is
\* made by copy_dir, the temporary one by mkdtemp)
Envs ==
    {e \in AllEnvs : /\ e.answers_file = NoPath => e.user_answers = NoFile
                     /\ ~e.openshift => e.environ = EnvVars
                     /\ (e.app_spec_exists \/ e.destination = "none") =>
                            ~e.app_dir_exists}

\* The disk before construction: a local bundle lies in app_spec.
InitialFs(e) ==
    [p \in Paths |->
        IF p = UserAnswers THEN e.user_answers
        ELSE IF e.app_spec_exists /\ p = <<AppSpec, MAIN_FILE>> THEN File(EmptyDict)
        ELSE IF e.app_spec_exists /\ p = <<AppSpec, ANSWERS_FILE>> THEN e.bundle_answers
        ELSE NoFile]

NoNulecule == [loaded |-> FALSE, shares |-> FALSE, config |-> EmptyDict]
NoOp == [name |-> None, dryrun |-> FALSE, nodeps |-> FALSE, update |-> FALSE,
         cli_provider |-> None, answers_output |-> NoPath]
NoRt == [pc |-> "off", config |-> EmptyDict, cli_provider |-> None,
         before |-> EmptyDict, first |-> EmptyDict, second |-> EmptyDict]

\* Before __init__: any arguments, any host.
InitAll ==
    /\ pc = "new"
    /\ env \in Envs
    /\ fs = InitialFs(env)
    /\ tmp_created = FALSE
    /\ copied = FALSE
    /\ answers = EmptyDict
    /\ cli_answers = EmptyDict
    /\ answers_file = NoPath
    /\ app_path = None
    /\ image = None
    /\ nulecule = NoNulecule
    /\ op = NoOp
    /\ calls = <<>>
    /\ written = <<>>
    /\ err = None
    /\ nops = 0
    /\ rt = NoRt

\* The lifecycle is explored for controllers built without a destination:
\* a local bundle used in place, or an image unpacked into its cache
\* directory.  The destination only decides which directory app_path names.
\* Inside an OpenShift pod it is explored without an explicit answers file
\* and with a cache directory that is not there yet.
Init ==
    /\ InitAll
    /\ env.destination = None
    /\ env.openshift => (env.answers_file = NoPath /\ ~env.app_dir_exists)

-----------------------------------------------------------------------------
(* _process_answers (lines 286-315), as a function of the fields it reads. *)
(* rebound: self.answers was assigned a freshly loaded document.  When the *)
(* method raises, the assignments made before the raise remain.            *)

\* a variant that merges the CLI answers before the file replaces the document
process_answers_cli_first(af, ans, f, cli) ==
    LET embedded == <<app_path, ANSWERS_FILE>>
        af1 == IF af = NoPath /\ isfile(f, embedded) THEN embedded ELSE af
        load == af1 # NoPath
    IN  IF load /\ ~isfile(f, af1)
        THEN [answers_file |-> af1, answers |-> ans, rebound |-> FALSE, err |-> "LoadError"]
        ELSE IF load
        THEN [answers_file |-> af1, answers |-> f[af1].data, rebound |-> TRUE, err |-> None]
        ELSE IF Truthy(cli) /\ ~Has(ans, GLOBAL_CONF)
        THEN [answers_file |-> af1, answers |-> ans, rebound |-> FALSE, err |-> "KeyError"]
        ELSE [answers_file |-> af1,
              answers |-> IF Truthy(cli)
                          THEN Put(ans, GLOBAL_CONF, Merge(ans[GLOBAL_CONF], cli))
                          ELSE ans,
              rebound |-> FALSE, err |-> None]

\* a variant that clears answers_file once the file is loaded
process_answers_forgets_file(af, ans, f, cli) ==
    LET embedded == <<app_path, ANSWERS_FILE>>
        af1 == IF af = NoPath /\ isfile(f, embedded) THEN embedded ELSE af
        load == af1 # NoPath
        ans1 == IF load /\ isfile(f, af1) THEN f[af1].data ELSE ans
    IN  IF load /\ ~isfile(f, af1)
        THEN [answers_file |-> af1, answers |-> ans, rebound |-> FALSE, err |-> "LoadError"]
        ELSE IF Truthy(cli) /\ ~Has(ans1, GLOBAL_CONF)
        THEN [answers_file |-> NoPath, answers |-> ans1, rebound |-> load, err |-> "KeyError"]
        ELSE [answers_file |-> NoPath,
              answers |-> IF Truthy(cli)
                          THEN Put(ans1, GLOBAL_CONF, Merge(ans1[GLOBAL_CONF], cli))
                          ELSE ans1,
              rebound |-> load, err |-> None]

\* Utils.loadAnswers raises for a file that is not there
process_answers(af, ans, f, cli) ==
    LET embedded == <<app_path, ANSWERS_FILE>>
        af1 == IF af = NoPath /\ isfile(f, embedded) THEN embedded ELSE af
        load == af1 # NoPath
        ans1 == IF load /\ isfile(f, af1) THEN f[af1].data ELSE ans
    IN  IF load /\ ~isfile(f, af1)
        THEN [answers_file |-> af1, answers |-> ans, rebound |-> FALSE, err |-> "LoadError"]
        ELSE IF Truthy(cli) /\ ~Has(ans1, GLOBAL_CONF)
        THEN [answers_file |-> af1, answers |-> ans1, rebound |-> load, err |-> "KeyError"]
        ELSE [answers_file |-> af1,
              answers |-> IF Truthy(cli)
                          THEN Put(ans1, GLOBAL_CONF, Merge(ans1[GLOBAL_CONF], cli))
                          ELSE ans1,
              rebound |-> load, err |-> None]

\* nulecule.config keeps referencing the old object when self.answers is rebound
Detach(n, old, rebound) ==
    IF rebound /\ n.shares THEN [loaded |-> TRUE, shares |-> FALSE, config |-> old] ELSE n

\* the document nulecule.config references
Config == IF nulecule.shares THEN answers ELSE nulecule.config

-----------------------------------------------------------------------------
(* __init__ (lines 32-110).                                                *)

Finish(e) == pc' = "done" /\ err' = e

\* a variant that unpacks an image into its cache directory whatever the
\* destination is
init_paths_image_to_cache ==
    /\ pc = "new"
    /\ LET dest == IF env.destination = "none" THEN TmpDir ELSE env.destination
       IN  /\ tmp_created' = (env.destination = "none")
           /\ image' = IF env.app_spec_exists THEN None ELSE AppSpec
           /\ copied' = (env.app_spec_exists /\ dest # None)
           /\ fs' = IF env.app_spec_exists /\ dest # None
                    THEN copy_dir(fs, AppSpec, dest) ELSE fs
           /\ app_path' = IF ~env.app_spec_exists THEN CacheDir
                          ELSE IF dest # None THEN dest ELSE AppSpec
    /\ answers' = DEFAULT_ANSWERS
    /\ cli_answers' = env.cli_answers
    /\ pc' = "init_answers"
    /\ UNCHANGED <<nops, env, answers_file, nulecule, op, calls, written, err, rt>>

\* lines 44-92: fields, the 'none' destination, image or path, copy, cache dir
init_paths ==
    /\ pc = "new"
    /\ LET dest == IF env.destination = "none" THEN TmpDir ELSE env.destination
       IN  /\ tmp_created' = (env.destination = "none")
           /\ image' = IF env.app_spec_exists THEN None ELSE AppSpec
           /\ copied' = (env.app_spec_exists /\ dest # None)
           /\ fs' = IF env.app_spec_exists /\ dest # None
                    THEN copy_dir(fs, AppSpec, dest) ELSE fs
           /\ app_path' = IF dest # None THEN dest
                          ELSE IF env.app_spec_exists THEN AppSpec ELSE CacheDir
    /\ answers' = DEFAULT_ANSWERS
    /\ cli_answers' = env.cli_answers
    /\ pc' = "init_answers"
    /\ UNCHANGED <<nops, env, answers_file, nulecule, op, calls, written, err, rt>>

\* lines 95-100: the explicit answers file must exist; then _process_answers
init_answers ==
    /\ pc = "init_answers"
    /\ IF env.answers_file # NoPath /\ ~isfile(fs, env.answers_file)
       THEN /\ pc' = "init_failed"
            /\ err' = "NuleculeException"
            /\ UNCHANGED <<answers, answers_file>>
       ELSE LET r == process_answers(env.answers_file, answers, fs, cli_answers)
            IN  /\ answers' = r.answers
                /\ answers_file' = r.answers_file
                /\ err' = r.err
                /\ pc' = IF r.err = None THEN "init_platform" ELSE "init_failed"
    /\ UNCHANGED <<nops, env, fs, tmp_created, copied, cli_answers, app_path, image,
                   nulecule, op, calls, written, rt>>

\* the global section after the assignments of lines 106-109 named by keys
openshift_assigned(ans, keys) ==
    LET all == (PROVIDER_KEY :> OPENSHIFT_PROVIDER) @@ ("accesstoken" :> EnvToken)
               @@ (NAMESPACE_KEY :> EnvNamespace) @@ ("providerapi" :> EnvProviderApi)
    IN  Put(ans, GLOBAL_CONF, Merge(ans[GLOBAL_CONF], [k \in keys |-> all[k]]))

\* lines 105-110: inside an OpenShift pod the environment's values are forced
openshift_answers(ans) ==
    Put(ans, GLOBAL_CONF,
        Merge(ans[GLOBAL_CONF],
              (PROVIDER_KEY :> OPENSHIFT_PROVIDER) @@ ("accesstoken" :> EnvToken)
              @@ (NAMESPACE_KEY :> EnvNamespace) @@ ("providerapi" :> EnvProviderApi)))

\* a missing global section raises at line 106, an unset variable at line
\* 107 or 108; the assignments made before the raise remain
init_platform ==
    /\ pc = "init_platform"
    /\ IF ~env.openshift
       THEN pc' = "idle" /\ UNCHANGED <<answers, err>>
       ELSE IF ~Has(answers, GLOBAL_CONF)
       THEN pc' = "init_failed" /\ err' = "KeyError" /\ UNCHANGED answers
       ELSE IF TOKEN_ENV_VAR \notin env.environ
       THEN /\ pc' = "init_failed" /\ err' = "KeyError"
            /\ answers' = openshift_assigned(answers, {PROVIDER_KEY})
       ELSE IF POD_NAMESPACE \notin env.environ
       THEN /\ pc' = "init_failed" /\ err' = "KeyError"
            /\ answers' = openshift_assigned(answers, {PROVIDER_KEY, "accesstoken"})
       ELSE pc' = "idle" /\ answers' = openshift_answers(answers) /\ UNCHANGED err
    /\ UNCHANGED <<nops, env, fs, tmp_created, copied, cli_answers, answers_file,
                   app_path, image, nulecule, op, calls, written, rt>>

-----------------------------------------------------------------------------
(* The descriptor engine (atomicapp.nulecule.base.Nulecule) and provider   *)
(* discovery are collaborators outside this file.  Every engine call is    *)
(* recorded with the arguments main.py passes, and may raise.  The handle  *)
(* an engine entry point returns keeps a reference to the config object it *)
(* was given; load_config leaves the global section as it finds it.        *)

Call(fn, dryrun, nodeps, update, provider) ==
    [fn |-> fn, dryrun |-> dryrun, nodeps |-> nodeps, update |-> update,
     provider |-> provider]

\* a variant that loads a local bundle without passing dryrun on
unpack_drops_dryrun(update, dryrun, nodeps) ==
    IF image # None
    THEN Call("Nulecule.unpack", dryrun, nodeps, update, None)
    ELSE Call("Nulecule.load_from_path", FALSE, FALSE, FALSE, None)

\* unpack (lines 112-139): which entry point is called, with which arguments
unpack(update, dryrun, nodeps) ==
    IF image # None
    THEN Call("Nulecule.unpack", dryrun, nodeps, update, None)
    ELSE Call("Nulecule.load_from_path", dryrun, FALSE, FALSE, None)

\* Nulecule.unpack on disk: unless dryrun, the image's files appear in app_path
engine_unpack_fs(f, update, dryrun) ==
    IF image # None /\ ~dryrun /\ (update \/ ~isfile(f, <<app_path, MAIN_FILE>>))
    THEN [p \in Paths |->
            IF p = <<app_path, MAIN_FILE>> THEN File(EmptyDict)
            ELSE IF p = <<app_path, ANSWERS_FILE>> /\ env.bundle_answers.exists
                 THEN env.bundle_answers
            ELSE f[p]]
    ELSE f

\* Utils.getSupportedProviders(app_path)
getSupportedProviders(f) ==
    IF isfile(f, <<app_path, MAIN_FILE>>) THEN env.providers ELSE <<>>

\* the handle built by Nulecule.unpack / load_from_path with config=self.answers
SharedHandle == [loaded |-> TRUE, shares |-> TRUE, config |-> EmptyDict]

\* an assignment made through nulecule.config's global dictionary
SetConfig(doc) ==
    IF nulecule.shares
    THEN answers' = doc /\ UNCHANGED nulecule
    ELSE nulecule' = [nulecule EXCEPT !.config = doc] /\ UNCHANGED answers

fixed == <<env, tmp_created, copied, cli_answers, rt>>

\* the directory d exists: the working directory and the user's directory
\* do, mkdtemp has made the temporary one, the image's destination or cache
\* directory may have been there before, and a directory that holds a file
\* (a local bundle, a copy, an unpacked image) exists
isdir(f, d) ==
    \/ d \in {Cwd, "user"}
    \/ d = TmpDir /\ tmp_created
    \/ /\ env.app_dir_exists
       /\ d = IF env.destination = Dest THEN Dest ELSE CacheDir
    \/ \E n \in AppFiles : <<d, n>> \in Paths /\ f[<<d, n>>].exists

\* _write_answers(path, answers, format) (lines 317-332) on the files f with
\* the paths w given so far: what anymarkup.serialize_file can leave behind.
\* In a missing directory it raises IOError and nothing changes.  Otherwise
\* it writes the document and returns, or it raises: before it is given the
\* path, or with the file untouched, cut short (holding no document) or
\* complete.
WriteOutcomes(f, w, path, doc) ==
    IF ~isdir(f, path[1])
    THEN { [fs |-> f, written |-> Append(w, path), ok |-> FALSE] }
    ELSE { [fs |-> serialize_file(f, path, doc), written |-> Append(w, path), ok |-> TRUE],
           [fs |-> f, written |-> w, ok |-> FALSE],
           [fs |-> f, written |-> Append(w, path), ok |-> FALSE],
           [fs |-> serialize_file(f, path, EmptyDict), written |-> Append(w, path),
            ok |-> FALSE],
           [fs |-> serialize_file(f, path, doc), written |-> Append(w, path),
            ok |-> FALSE] }

\* a method ends with one call of _write_answers
write_answers(path, doc) ==
    \E o \in WriteOutcomes(fs, written, path, doc) :
        /\ fs' = o.fs
        /\ written' = o.written
        /\ Finish(IF o.ok THEN None ELSE "IOError")

\* a method is called on a constructed controller, at most MaxOps times in a run
Begin == pc = "idle" /\ nops < MaxOps /\ nops' = nops + 1

-----------------------------------------------------------------------------
(* unpack as called by the user (lines 112-139): the handle is returned.   *)

unpack_op ==
    /\ Begin
    /\ \E update \in BOOLEAN, dryrun \in BOOLEAN, nodeps \in BOOLEAN, ok \in BOOLEAN :
          /\ op' = [NoOp EXCEPT !.name = "unpack", !.dryrun = dryrun,
                                !.nodeps = nodeps, !.update = update]
          /\ calls' = <<unpack(update, dryrun, nodeps)>>
          /\ fs' = IF ok THEN engine_unpack_fs(fs, update, dryrun) ELSE fs
          /\ Finish(IF ok THEN None ELSE "EngineError")
    /\ written' = <<>>
    /\ UNCHANGED <<fixed, answers, answers_file, app_path, image, nulecule>>

-----------------------------------------------------------------------------
(* genanswers (lines 141-170).                                             *)

\* a variant that looks for answers.conf in app_path instead of the cwd
answers_conf_exists_in_app(f) == isfile(f, <<app_path, ANSWERS_FILE>>)

\* lines 157-158: os.path.exists(os.path.join(os.getcwd(), ANSWERS_FILE))
answers_conf_exists(f) == isfile(f, CwdAnswers)

\* lines 154-163: refuse to overwrite ./answers.conf, else unpack
genanswers ==
    /\ Begin
    /\ \E dryrun \in BOOLEAN, ok \in BOOLEAN :
          /\ op' = [NoOp EXCEPT !.name = "genanswers", !.dryrun = dryrun]
          /\ IF answers_conf_exists(fs)
             THEN /\ Finish("NuleculeException")
                  /\ calls' = <<>>
                  /\ UNCHANGED <<fs, nulecule>>
             ELSE /\ calls' = <<unpack(FALSE, dryrun, FALSE)>>
                  /\ IF ok
                     THEN /\ fs' = engine_unpack_fs(fs, FALSE, dryrun)
                          /\ nulecule' = SharedHandle
                          /\ pc' = "gen_config"
                          /\ err' = None
                     ELSE Finish("EngineError") /\ UNCHANGED <<fs, nulecule>>
    /\ written' = <<>>
    /\ UNCHANGED <<fixed, answers, answers_file, app_path, image>>

\* lines 165-166: nulecule.load_config(config=nulecule.config, skip_asking=True)
gen_config ==
    /\ pc = "gen_config"
    /\ calls' = Append(calls, Call("load_config", FALSE, FALSE, FALSE, None))
    /\ \E ok \in BOOLEAN :
          IF ok THEN pc' = "gen_write" /\ UNCHANGED err ELSE Finish("EngineError")
    /\ UNCHANGED <<fixed, nops, fs, answers, answers_file, app_path, image, nulecule,
                   op, written>>

\* lines 168-170: runtime answers of nulecule.config, written to ./answers.conf
gen_write ==
    /\ pc = "gen_write"
    /\ LET r == get_runtime_answers(Config, None)
       IN  /\ SetConfig(r.config)
           /\ write_answers(CwdAnswers, r.ret)
    /\ UNCHANGED <<fixed, nops, answers_file, app_path, image, op, calls>>

-----------------------------------------------------------------------------
(* install (lines 172-204).                                                *)

\* a variant that derives the cache directory again when it unpacks
install_rederives_path ==
    /\ Begin
    /\ \E nodeps \in BOOLEAN, update \in BOOLEAN, dryrun \in BOOLEAN :
          /\ op' = [NoOp EXCEPT !.name = "install", !.dryrun = dryrun,
                                !.nodeps = nodeps, !.update = update]
          /\ calls' = <<unpack(update, dryrun, FALSE)>>
          /\ fs' = engine_unpack_fs(fs, update, dryrun)
          /\ nulecule' = SharedHandle
          /\ app_path' = CacheDir
          /\ pc' = "install_config"
          /\ err' = None
    /\ written' = <<>>
    /\ UNCHANGED <<fixed, answers, answers_file, image>>

\* lines 191-195: self.unpack(update, dryrun, config=self.answers)
install ==
    /\ Begin
    /\ \E nodeps \in BOOLEAN, update \in BOOLEAN, dryrun \in BOOLEAN, ok \in BOOLEAN :
          /\ op' = [NoOp EXCEPT !.name = "install", !.dryrun = dryrun,
                                !.nodeps = nodeps, !.update = update]
          /\ calls' = <<unpack(update, dryrun, FALSE)>>
          /\ IF ok
             THEN /\ fs' = engine_unpack_fs(fs, update, dryrun)
                  /\ nulecule' = SharedHandle
                  /\ pc' = "install_config"
                  /\ err' = None
             ELSE Finish("EngineError") /\ UNCHANGED <<fs, nulecule>>
    /\ written' = <<>>
    /\ UNCHANGED <<fixed, answers, answers_file, app_path, image>>

\* lines 197-198
install_config ==
    /\ pc = "install_config"
    /\ calls' = Append(calls, Call("load_config", FALSE, FALSE, FALSE, None))
    /\ \E ok \in BOOLEAN :
          IF ok THEN pc' = "install_write" /\ UNCHANGED err ELSE Finish("EngineError")
    /\ UNCHANGED <<fixed, nops, fs, answers, answers_file, app_path, image, nulecule,
                   op, written>>

\* lines 199-204: the sample answers file in app_path
install_write ==
    /\ pc = "install_write"
    /\ LET r == get_runtime_answers(Config, None)
       IN  /\ SetConfig(r.config)
           /\ write_answers(<<app_path, ANSWERS_FILE_SAMPLE>>, r.ret)
    /\ UNCHANGED <<fixed, nops, answers_file, app_path, image, op, calls>>

-----------------------------------------------------------------------------
(* run (lines 206-254).                                                    *)

CliProviders == {None, "kubernetes"}
AnswersOutputs == {NoPath, ExportPath}

\* lines 226-231: self.unpack(dryrun=dryrun, config=self.answers)
run ==
    /\ Begin
    /\ \E cli_provider \in CliProviders, answers_output \in AnswersOutputs,
          dryrun \in BOOLEAN, ok \in BOOLEAN :
          /\ op' = [NoOp EXCEPT !.name = "run", !.dryrun = dryrun,
                                !.cli_provider = cli_provider,
                                !.answers_output = answers_output]
          /\ calls' = <<unpack(FALSE, dryrun, FALSE)>>
          /\ IF ok
             THEN /\ fs' = engine_unpack_fs(fs, FALSE, dryrun)
                  /\ nulecule' = SharedHandle
                  /\ pc' = "run_resolve"
                  /\ err' = None
             ELSE Finish("EngineError") /\ UNCHANGED <<fs, nulecule>>
    /\ written' = <<>>
    /\ UNCHANGED <<fixed, answers, answers_file, app_path, image>>

\* lines 235-236: no answers file so far, so _process_answers once more
run_resolve ==
    /\ pc = "run_resolve"
    /\ IF answers_file # NoPath
       THEN pc' = "run_provider" /\ UNCHANGED <<answers, answers_file, nulecule, err>>
       ELSE LET r == process_answers(answers_file, answers, fs, cli_answers)
            IN  /\ answers' = r.answers
                /\ answers_file' = r.answers_file
                /\ nulecule' = Detach(nulecule, answers, r.rebound)
                /\ IF r.err = None
                   THEN pc' = "run_provider" /\ UNCHANGED err
                   ELSE Finish(r.err)
    /\ UNCHANGED <<fixed, nops, fs, app_path, image, op, calls, written>>

\* lines 240-242: a single supported provider is the default
run_provider ==
    /\ pc = "run_provider"
    /\ LET providers == getSupportedProviders(fs)
       IN  IF op.cli_provider = None /\ Len(providers) = 1
           THEN IF Has(answers, GLOBAL_CONF)
                THEN /\ answers' = Put(answers, GLOBAL_CONF,
                                       Put(answers[GLOBAL_CONF], PROVIDER_KEY, providers[1]))
                     /\ pc' = "run_config"
                     /\ UNCHANGED err
                ELSE Finish("KeyError") /\ UNCHANGED answers
           ELSE pc' = "run_config" /\ UNCHANGED <<answers, err>>
    /\ UNCHANGED <<fixed, nops, fs, answers_file, app_path, image, nulecule, op, calls,
                   written>>

\* line 244: nulecule.load_config(config=nulecule.config, ask=ask)
run_config ==
    /\ pc = "run_config"
    /\ calls' = Append(calls, Call("load_config", FALSE, FALSE, FALSE, None))
    /\ \E ok \in BOOLEAN :
          IF ok THEN pc' = "run_render" /\ UNCHANGED err ELSE Finish("EngineError")
    /\ UNCHANGED <<fixed, nops, fs, answers, answers_file, app_path, image, nulecule,
                   op, written>>

\* a variant that writes the answers files right after rendering
run_render_then_write ==
    /\ pc = "run_render"
    /\ calls' = Append(calls, Call("render", op.dryrun, FALSE, FALSE, op.cli_provider))
    /\ \E ok \in BOOLEAN :
          IF ok THEN pc' = "run_write" /\ UNCHANGED err ELSE Finish("EngineError")
    /\ UNCHANGED <<fixed, nops, fs, answers, answers_file, app_path, image, nulecule,
                   op, written>>

\* line 245: nulecule.render(cli_provider, dryrun)
run_render ==
    /\ pc = "run_render"
    /\ calls' = Append(calls, Call("render", op.dryrun, FALSE, FALSE, op.cli_provider))
    /\ \E ok \in BOOLEAN :
          IF ok THEN pc' = "run_run" /\ UNCHANGED err ELSE Finish("EngineError")
    /\ UNCHANGED <<fixed, nops, fs, answers, answers_file, app_path, image, nulecule,
                   op, written>>

\* line 246: nulecule.run(cli_provider, dryrun)
run_run ==
    /\ pc = "run_run"
    /\ calls' = Append(calls, Call("run", op.dryrun, FALSE, FALSE, op.cli_provider))
    /\ \E ok \in BOOLEAN :
          IF ok THEN pc' = "run_write" /\ UNCHANGED err ELSE Finish("EngineError")
    /\ UNCHANGED <<fixed, nops, fs, answers, answers_file, app_path, image, nulecule,
                   op, written>>

\* lines 247-254: the runtime answers file in app_path, then the export
run_write ==
    /\ pc = "run_write"
    /\ LET r == get_runtime_answers(Config, op.cli_provider)
           runtime == <<app_path, ANSWERS_RUNTIME_FILE>>
       IN  /\ SetConfig(r.config)
           /\ \E o1 \in WriteOutcomes(fs, written, runtime, r.ret) :
                 IF ~o1.ok \/ op.answers_output = NoPath
                 THEN /\ fs' = o1.fs
                      /\ written' = o1.written
                      /\ Finish(IF o1.ok THEN None ELSE "IOError")
                 ELSE \E o2 \in WriteOutcomes(o1.fs, o1.written, op.answers_output,
                                             r.ret) :
                         /\ fs' = o2.fs
                         /\ written' = o2.written
                         /\ Finish(IF o2.ok THEN None ELSE "IOError")
    /\ UNCHANGED <<fixed, nops, answers_file, app_path, image, op, calls>>

-----------------------------------------------------------------------------
(* stop (lines 256-273).                                                   *)

\* a variant that keeps an answers file resolved earlier
stop_keeps_answers_file ==
    /\ Begin
    /\ \E cli_provider \in CliProviders, dryrun \in BOOLEAN :
          op' = [NoOp EXCEPT !.name = "stop", !.dryrun = dryrun,
                             !.cli_provider = cli_provider]
    /\ LET r == process_answers(IF answers_file # NoPath THEN answers_file
                                ELSE <<app_path, ANSWERS_RUNTIME_FILE>>,
                                answers, fs, cli_answers)
       IN  /\ answers' = r.answers
           /\ answers_file' = r.answers_file
           /\ nulecule' = Detach(nulecule, answers, r.rebound)
           /\ IF r.err = None
              THEN pc' = "stop_load" /\ err' = None
              ELSE Finish(r.err)
    /\ calls' = <<>>
    /\ written' = <<>>
    /\ UNCHANGED <<fixed, fs, app_path, image>>

\* lines 265-266: the answers file is the one run generated
stop ==
    /\ Begin
    /\ \E cli_provider \in CliProviders, dryrun \in BOOLEAN :
          op' = [NoOp EXCEPT !.name = "stop", !.dryrun = dryrun,
                             !.cli_provider = cli_provider]
    /\ LET r == process_answers(<<app_path, ANSWERS_RUNTIME_FILE>>, answers, fs,
                                cli_answers)
       IN  /\ answers' = r.answers
           /\ answers_file' = r.answers_file
           /\ nulecule' = Detach(nulecule, answers, r.rebound)
           /\ IF r.err = None
              THEN pc' = "stop_load" /\ err' = None
              ELSE Finish(r.err)
    /\ calls' = <<>>
    /\ written' = <<>>
    /\ UNCHANGED <<fixed, fs, app_path, image>>

\* lines 268-270: Nulecule.load_from_path(app_path, config=self.answers, dryrun)
stop_load ==
    /\ pc = "stop_load"
    /\ calls' = Append(calls, Call("Nulecule.load_from_path", op.dryrun, FALSE, FALSE, None))
    /\ \E ok \in BOOLEAN :
          IF ok
          THEN nulecule' = SharedHandle /\ pc' = "stop_config" /\ UNCHANGED err
          ELSE Finish("EngineError") /\ UNCHANGED nulecule
    /\ UNCHANGED <<fixed, nops, fs, answers, answers_file, app_path, image, op, written>>

\* line 271: nulecule.load_config(config=self.answers)
stop_config ==
    /\ pc = "stop_config"
    /\ calls' = Append(calls, Call("load_config", FALSE, FALSE, FALSE, None))
    /\ \E ok \in BOOLEAN :
          IF ok THEN pc' = "stop_render" /\ UNCHANGED err ELSE Finish("EngineError")
    /\ UNCHANGED <<fixed, nops, fs, answers, answers_file, app_path, image, nulecule,
                   op, written>>

\* line 272: nulecule.render(cli_provider, dryrun=dryrun)
stop_render ==
    /\ pc = "stop_render"
    /\ calls' = Append(calls, Call("render", op.dryrun, FALSE, FALSE, op.cli_provider))
    /\ \E ok \in BOOLEAN :
          IF ok THEN pc' = "stop_stop" /\ UNCHANGED err ELSE Finish("EngineError")
    /\ UNCHANGED <<fixed, nops, fs, answers, answers_file, app_path, image, nulecule,
                   op, written>>

\* line 273: nulecule.stop(cli_provider, dryrun)
stop_stop ==
    /\ pc = "stop_stop"
    /\ calls' = Append(calls, Call("stop", op.dryrun, FALSE, FALSE, op.cli_provider))
    /\ \E ok \in BOOLEAN : Finish(IF ok THEN None ELSE "EngineError")
    /\ UNCHANGED <<fixed, nops, fs, answers, answers_file, app_path, image, nulecule,
                   op, written>>

-----------------------------------------------------------------------------
(* uninstall (lines 275-278) and clean (lines 280-284).  stop is called    *)
(* without its required cli_provider argument, which Python rejects with a *)
(* TypeError before stop's body runs.                                      *)

uninstall ==
    /\ Begin
    /\ op' = [NoOp EXCEPT !.name = "uninstall"]
    /\ calls' = <<>>
    /\ written' = <<>>
    /\ Finish("TypeError")
    /\ UNCHANGED <<fixed, fs, answers, answers_file, app_path, image, nulecule>>

clean ==
    /\ Begin
    /\ op' = [NoOp EXCEPT !.name = "clean"]
    /\ calls' = <<>>
    /\ written' = <<>>
    /\ Finish("TypeError")
    /\ UNCHANGED <<fixed, fs, answers, answers_file, app_path, image, nulecule>>

\* the method has returned or raised; the caller may call the next one
return ==
    /\ pc = "done"
    /\ pc' = "idle"
    /\ op' = NoOp
    /\ calls' = <<>>
    /\ written' = <<>>
    /\ err' = None
    /\ UNCHANGED <<fixed, nops, fs, answers, answers_file, app_path, image, nulecule>>

Next ==
    \/ init_paths \/ init_answers \/ init_platform
    \/ unpack_op
    \/ genanswers \/ gen_config \/ gen_write
    \/ install \/ install_config \/ install_write
    \/ run \/ run_resolve \/ run_provider \/ run_config \/ run_render \/ run_run
    \/ run_write
    \/ stop \/ stop_load \/ stop_config \/ stop_render \/ stop_stop
    \/ uninstall \/ clean
    \/ return

Spec == Init /\ [][Next]_vars

\* construction alone, for every combination of arguments
NextInit == init_paths \/ init_answers \/ init_platform

SpecInit == InitAll /\ [][NextInit]_vars

-----------------------------------------------------------------------------
(* _get_runtime_answers on its own: the caller holds a document, calls the *)
(* method, and calls it once more with the same document and provider.     *)

RtValues == {"", "docker", "file-ns"}
RtGlobals == Dicts({PROVIDER_KEY, NAMESPACE_KEY, "accesstoken"}, RtValues)
RtDocs ==
    { g @@ c : g \in {EmptyDict} \cup {(GLOBAL_CONF :> d) : d \in RtGlobals},
               c \in {EmptyDict, ("mariadb" :> ("db_pass" :> "secret"))} }
RtProviders == {None, "", "kubernetes"}

InitRt ==
    /\ pc = "rt"
    /\ env = CHOOSE e \in Envs : TRUE
    /\ fs = InitialFs(env)
    /\ tmp_created = FALSE
    /\ copied = FALSE
    /\ answers = EmptyDict
    /\ cli_answers = EmptyDict
    /\ answers_file = NoPath
    /\ app_path = None
    /\ image = None
    /\ nulecule = NoNulecule
    /\ op = NoOp
    /\ calls = <<>>
    /\ written = <<>>
    /\ err = None
    /\ nops = 0
    /\ \E c \in RtDocs, p \in RtProviders :
          rt = [pc |-> "ready", config |-> c, cli_provider |-> p, before |-> c,
                first |-> EmptyDict, second |-> EmptyDict]

rt_call ==
    /\ rt.pc = "ready"
    /\ LET r == get_runtime_answers(rt.config, rt.cli_provider)
       IN  rt' = [rt EXCEPT !.pc = "once", !.config = r.config, !.first = r.ret]
    /\ UNCHANGED ctl

rt_again ==
    /\ rt.pc = "once"
    /\ LET r == get_runtime_answers(rt.config, rt.cli_provider)
       IN  rt' = [rt EXCEPT !.pc = "twice", !.config = r.config, !.second = r.ret]
    /\ UNCHANGED ctl

NextRt == rt_call \/ rt_again

SpecRt == InitRt /\ [][NextRt]_vars

\* the controller's lifecycle, or a stand-alone call of _get_runtime_answers
NextAll == Next \/ NextRt

SpecAll == (Init \/ InitRt) /\ [][NextAll]_vars

-----------------------------------------------------------------------------
(* Properties.                                                             *)

\* doc[GLOBAL_CONF][k], or None when the section or the key is missing
GlobalGet(doc, k) ==
    IF Has(doc, GLOBAL_CONF) /\ Has(doc[GLOBAL_CONF], k) THEN doc[GLOBAL_CONF][k] ELSE None

Constructed == pc \notin {"new", "init_answers", "init_platform", "init_failed", "rt"}
RuntimeFile == fs[<<app_path, ANSWERS_RUNTIME_FILE>>]

\* the paths the current method gave the serialiser that hold a file
Stored == {written[i] : i \in 1..Len(written)} \cap {p \in Paths : isfile(fs, p)}

\* C1: with dryrun true, genanswers, install and run write no answers file
\* anywhere (app path, working directory, answers-output path).
C1_DryrunWritesNothing ==
    (op.name \in {"genanswers", "install", "run"} /\ op.dryrun) => Stored = {}

\* C2: _get_runtime_answers leaves the caller's document as it was, and a
\* second call with the same document and provider returns an equal document.
C2_InputNotMutated ==
    /\ rt.pc \in {"once", "twice"} => rt.config = rt.before
    /\ rt.pc = "twice" => rt.second = rt.first

\* C3: on a detected platform, in every state from the end of construction on,
\* the global provider, access token, namespace and API endpoint are the
\* environment's values.
C3_PlatformValuesWin ==
    (Constructed /\ env.openshift) =>
        /\ GlobalGet(answers, PROVIDER_KEY) = OPENSHIFT_PROVIDER
        /\ GlobalGet(answers, "accesstoken") = EnvToken
        /\ GlobalGet(answers, NAMESPACE_KEY) = EnvNamespace
        /\ GlobalGet(answers, "providerapi") = EnvProviderApi

\* _process_answers has just returned: in __init__, in run, or in stop
ResolutionReturned ==
    \/ pc = "init_answers" /\ pc' = "init_platform"
    \/ pc = "run_resolve" /\ answers_file = NoPath /\ pc' = "run_provider"
    \/ pc = "idle" /\ pc' = "stop_load"

CliWins == \A k \in DOMAIN cli_answers : GlobalGet(answers, k) = cli_answers[k]

FileKept ==
    answers_file # NoPath =>
        LET d == fs[answers_file].data
        IN  \A sec \in DOMAIN d : \A k \in DOMAIN d[sec] :
                (sec = GLOBAL_CONF /\ k \in DOMAIN cli_answers)
                \/ (Has(answers, sec) /\ Has(answers[sec], k) /\ answers[sec][k] = d[sec][k])

\* C4: whenever _process_answers returns (construction, run's second
\* resolution, stop), every CLI key holds the CLI value in the global section
\* and every other key of the loaded file holds the file's value.
C4_CliOverFile == [][ResolutionReturned => (CliWins /\ FileKept)']_vars

\* C4 witness: run's second resolution loaded the embedded file, whose provider
\* differs from the CLI's, and the CLI's provider is in place.
C4_Witness ==
    /\ pc = "run_provider"
    /\ env.answers_file = NoPath
    /\ answers_file = <<app_path, ANSWERS_FILE>>
    /\ image # None
    /\ GlobalGet(fs[answers_file].data, PROVIDER_KEY) = "kubernetes"
    /\ GlobalGet(fs[answers_file].data, NAMESPACE_KEY) = "file-ns"
    /\ cli_answers = (PROVIDER_KEY :> "docker")
    /\ GlobalGet(answers, PROVIDER_KEY) = "docker"
    /\ GlobalGet(answers, NAMESPACE_KEY) = "file-ns"

\* C5: genanswers called while ./answers.conf exists ends with a
\* NuleculeException, has made no engine call, and leaves every file as it was.
C5_GenanswersNeverOverwrites ==
    [][(pc = "idle" /\ op'.name = "genanswers" /\ isfile(fs, CwdAnswers)) =>
           (pc' = "done" /\ err' = "NuleculeException" /\ calls' = <<>> /\ fs' = fs)]_vars

\* C5 witness: the second genanswers in the same directory has failed, after
\* the first one wrote the file.
C5_Witness ==
    /\ pc = "done"
    /\ op.name = "genanswers"
    /\ nops = 2
    /\ err = "NuleculeException"
    /\ calls = <<>>
    /\ isfile(fs, CwdAnswers)

\* C6: run without an explicit provider, on an app path with exactly one
\* supported provider, writes a runtime answers file whose global provider is
\* that provider.
C6_SingleProviderWritten ==
    (/\ pc = "done" /\ op.name = "run" /\ err = None
     /\ op.cli_provider = None
     /\ Len(getSupportedProviders(fs)) = 1) =>
        GlobalGet(RuntimeFile.data, PROVIDER_KEY) = getSupportedProviders(fs)[1]

\* stop has handed self.answers to the engine (load_from_path has been called)
StopHanded == op.name = "stop" /\ Len(calls) >= 1

\* C7 as stated: the document stop hands to the engine has the runtime answers
\* file's provider and namespace, whatever the CLI overrides are.
C7_StopUsesRuntimeFile ==
    StopHanded =>
        \A k \in {PROVIDER_KEY, NAMESPACE_KEY} :
            GlobalGet(answers, k) = GlobalGet(RuntimeFile.data, k)

\* C7 amended: the document stop hands to the engine has the runtime answers
\* file's provider and namespace, except for a key the CLI overrides name,
\* which has the CLI value.
C7_StopUsesRuntimeFileAndCli ==
    StopHanded =>
        \A k \in {PROVIDER_KEY, NAMESPACE_KEY} :
            GlobalGet(answers, k) = IF k \in DOMAIN cli_answers THEN cli_answers[k]
                                    ELSE GlobalGet(RuntimeFile.data, k)

\* C7 witness: an explicit answers file was resolved at construction, run
\* wrote a runtime answers file with another provider, and stop handed the
\* runtime file's provider and namespace to the engine.
C7_Witness ==
    /\ StopHanded
    /\ env.answers_file = UserAnswers
    /\ cli_answers = EmptyDict
    /\ GlobalGet(RuntimeFile.data, PROVIDER_KEY) = "docker"
    /\ GlobalGet(env.user_answers.data, PROVIDER_KEY) = "kubernetes"
    /\ GlobalGet(answers, PROVIDER_KEY) = "docker"
    /\ GlobalGet(answers, NAMESPACE_KEY) = GlobalGet(RuntimeFile.data, NAMESPACE_KEY)

\* C8: when construction fails because the explicit answers file is missing,
\* no temporary directory has been created, no bundle has been copied and no
\* engine call has been made.
C8_FailsBeforeAnyEffect ==
    (pc = "init_failed" /\ err = "NuleculeException") =>
        (~tmp_created /\ ~copied /\ calls = <<>>)

\* C9: after construction the answers document always has a global section
\* with a namespace value.
C9_NamespacePresent ==
    Constructed => (Has(answers, GLOBAL_CONF) /\ Has(answers[GLOBAL_CONF], NAMESPACE_KEY))

\* C10: once __init__ has resolved them, app_path and image never change.
C10_AppLocationImmutable ==
    [][pc # "new" => (app_path' = app_path /\ image' = image)]_vars

\* C10 witness: two methods later the image's controller still has the cache
\* directory and the image it was constructed with.
C10_Witness ==
    /\ pc = "done"
    /\ nops = 2
    /\ op.name = "stop"
    /\ image = AppSpec
    /\ app_path = CacheDir

\* the destination __init__ works with: a temporary directory for 'none'
EffectiveDestination == IF env.destination = "none" THEN TmpDir ELSE env.destination

\* C11: after __init__ has resolved the paths, image is set exactly when the
\* source does not exist and app_path is always set; an existing source is
\* used in place without a destination, and copied to the destination that
\* becomes app_path with one; an image's app_path is the destination if given
\* and its cache directory otherwise; a 'none' destination is a fresh
\* temporary directory.
C11_PathResolution ==
    pc # "new" =>
        /\ (image # None) <=> ~env.app_spec_exists
        /\ image # None => image = AppSpec
        /\ app_path # None
        /\ tmp_created <=> (env.destination = "none")
        /\ (env.app_spec_exists /\ env.destination = None) =>
               (app_path = AppSpec /\ ~copied)
        /\ (env.app_spec_exists /\ env.destination # None) =>
               /\ app_path = EffectiveDestination
               /\ copied
               /\ \A n \in AppFiles :
                      fs[<<AppSpec, n>>].exists =>
                          fs[<<app_path, n>>] = fs[<<AppSpec, n>>]
        /\ (~env.app_spec_exists /\ env.destination # None) =>
               (app_path = EffectiveDestination /\ ~copied)
        /\ (~env.app_spec_exists /\ env.destination = None) =>
               (app_path = CacheDir /\ ~copied)

\* C11 witness: an image given with destination 'none' has the fresh temporary
\* directory as its app_path.
C11_Witness ==
    /\ pc = "idle"
    /\ image = AppSpec
    /\ env.destination = "none"
    /\ tmp_created
    /\ app_path = TmpDir

\* the positions in calls of the engine entry point fn
CallsOf(fn) == {i \in 1..Len(calls) : calls[i].fn = fn}

\* C12: uninstall on a controller whose run had succeeded completes stop and
\* then invokes the bundle's uninstall exactly once, never before the
\* engine's stop.
C12_UninstallStopsThenUninstalls ==
    /\ op.name = "uninstall" =>
          \A j \in CallsOf("uninstall") : \E i \in CallsOf("stop") : i < j
    /\ (pc = "done" /\ op.name = "uninstall" /\ RuntimeFile.exists) =>
          /\ err = None
          /\ Cardinality(CallsOf("stop")) = 1
          /\ Cardinality(CallsOf("uninstall")) = 1

\* C13: the nodeps value the engine's image unpack receives from install is
\* the one the caller passed to install.
C13_NodepsReachesEngine ==
    (op.name = "install" /\ Len(calls) >= 1 /\ calls[1].fn = "Nulecule.unpack") =>
        calls[1].nodeps = op.nodeps

\* the engine entry points that accept a dryrun argument
DryrunEntryPoints ==
    {"Nulecule.unpack", "Nulecule.load_from_path", "render", "run", "stop"}

\* C14: in genanswers, install, run and stop, every engine call that accepts
\* dryrun receives the dryrun value the caller passed to the operation.
C14_DryrunPropagates ==
    op.name \in {"genanswers", "install", "run", "stop"} =>
        \A i \in 1..Len(calls) :
            calls[i].fn \in DryrunEntryPoints => calls[i].dryrun = op.dryrun

\* C14 witness: a dry run of a local bundle has loaded it from its path,
\* rendered and run it, each with dryrun true.
C14_Witness ==
    /\ pc = "done"
    /\ op.name = "run"
    /\ op.dryrun
    /\ Len(calls) = 4
    /\ calls[1].fn = "Nulecule.load_from_path" /\ calls[1].dryrun
    /\ calls[3].fn = "render" /\ calls[3].dryrun
    /\ calls[4].fn = "run" /\ calls[4].dryrun

\* the fields after _process_answers is called with answers_file set to af
ResolvedOnce(af) == process_answers(af, answers, fs, cli_answers)

\* the values answers_file has when _process_answers is called: the field as
\* it is, the constructor's argument, the runtime answers file stop sets
ResolutionPaths == {answers_file, env.answers_file, <<app_path, ANSWERS_RUNTIME_FILE>>}

\* C15: in every state of a controller whose paths are resolved, calling
\* _process_answers twice in a row on the same files and CLI overrides leaves
\* the same answers document and answers-file path (and the same outcome) as
\* calling it once.
C15_ResolutionIdempotent ==
    pc # "new" =>
        \A af \in ResolutionPaths :
            LET once == ResolvedOnce(af)
                twice == process_answers(once.answers_file, once.answers, fs, cli_answers)
            IN  /\ twice.answers = once.answers
                /\ twice.answers_file = once.answers_file
                /\ twice.err = once.err

\* C15 witness: stop is about to be called with CLI overrides on a controller
\* that resolved another answers file; the first call replaces the document
\* by the runtime answers file's with the CLI value merged in, and changes
\* the answers-file path.
C15_Witness ==
    /\ pc = "idle"
    /\ answers_file = UserAnswers
    /\ RuntimeFile.exists
    /\ cli_answers = (NAMESPACE_KEY :> "cli-ns")
    /\ ResolvedOnce(<<app_path, ANSWERS_RUNTIME_FILE>>).err = None
    /\ ResolvedOnce(<<app_path, ANSWERS_RUNTIME_FILE>>).answers # answers
    /\ ResolvedOnce(<<app_path, ANSWERS_RUNTIME_FILE>>).answers_file # answers_file
    /\ GlobalGet(ResolvedOnce(<<app_path, ANSWERS_RUNTIME_FILE>>).answers, NAMESPACE_KEY)
           = "cli-ns"

\* the engine entry points run calls, in the order of lines 231-246
RunSteps ==
    << IF image # None THEN "Nulecule.unpack" ELSE "Nulecule.load_from_path",
       "load_config", "render", "run" >>

\* the answers files a successful run writes, in the order of lines 249-254
RunFiles ==
    IF op.answers_output # NoPath
    THEN << <<app_path, ANSWERS_RUNTIME_FILE>>, op.answers_output >>
    ELSE << <<app_path, ANSWERS_RUNTIME_FILE>> >>

\* the order of run's engine calls, and no answers file on disk before all
\* four have returned
RunInOrder ==
    /\ Len(calls) <= 4
    /\ \A i \in 1..Len(calls) : calls[i].fn = RunSteps[i]
    /\ Stored # {} => (Len(calls) = 4 /\ pc = "done")
    /\ (pc = "done" /\ err = None) =>
          (written = RunFiles /\ \A i \in 1..Len(written) : isfile(fs, written[i]))

\* C16 as stated: run calls unpack, load_config, render and the engine's run
\* in this order and then writes the runtime answers file and the export; it
\* either succeeds fully or leaves no answers file: a run that ends with an
\* error has put none on disk.
C16_RunAllOrNothing ==
    op.name = "run" =>
        /\ RunInOrder
        /\ (pc = "done" /\ err # None) => Stored = {}

\* C16 amended: the same order; an answers file is on disk only after the
\* engine's run returned without error; a run in which unpack, load_config,
\* render or the engine's run fails has put none on disk; only a run that
\* fails while writing can end with an error and answers files on disk.
C16_RunWritesAfterEngine ==
    op.name = "run" =>
        /\ RunInOrder
        /\ (pc = "done" /\ err \notin {None, "IOError"}) => Stored = {}
        /\ (pc = "done" /\ err = "IOError") => Len(calls) = 4

\* C16 witness: after its four engine calls returned, run has written the
\* runtime answers file and then the export.
C16_Witness ==
    /\ pc = "done"
    /\ op.name = "run"
    /\ Len(calls) = 4
    /\ calls[4].fn = "run"
    /\ err = None
    /\ op.answers_output = ExportPath
    /\ written = << <<app_path, ANSWERS_RUNTIME_FILE>>, ExportPath >>
    /\ isfile(fs, ExportPath)

\* run has resolved the embedded answers file that its unpacking of the image
\* made visible; construction had resolved none
EmbeddedResolvedByRun ==
    /\ op.name = "run"
    /\ nops = 1
    /\ image # None
    /\ env.answers_file = NoPath
    /\ answers_file = <<app_path, ANSWERS_FILE>>

\* doc has the global values of the embedded answers file, but for the keys
\* the CLI overrides name and for the provider chosen for this run
EmbeddedValuesIn(doc) ==
    LET g == fs[<<app_path, ANSWERS_FILE>>].data
        chosen == op.cli_provider # None \/ Len(getSupportedProviders(fs)) = 1
    IN  Has(g, GLOBAL_CONF) =>
            \A k \in DOMAIN g[GLOBAL_CONF] :
                \/ k \in DOMAIN cli_answers
                \/ k = PROVIDER_KEY /\ chosen
                \/ GlobalGet(doc, k) = g[GLOBAL_CONF][k]

\* C17: when run's re-resolution loads the embedded answers file, its values
\* are in the configuration load_config, render and the engine's run use, and
\* in the runtime answers file run writes.
C17_EmbeddedAnswersTakeEffect ==
    EmbeddedResolvedByRun =>
        /\ pc \in {"run_config", "run_render", "run_run", "run_write"} =>
              EmbeddedValuesIn(Config)
        /\ (pc = "done" /\ err = None) => EmbeddedValuesIn(RuntimeFile.data)

\* the provider an engine call is made for: the provider argument, or without
\* one the provider of the configuration the handle holds
ProviderGiven(c) ==
    IF c.provider # None THEN c.provider ELSE GlobalGet(Config, PROVIDER_KEY)

\* C18: in run, render and the engine's run are invoked for the chosen
\* provider: the explicit provider when one is given, the single supported
\* provider when none is given and exactly one is available.
C18_ChosenProviderUsed ==
    op.name = "run" =>
        \A i \in CallsOf("render") \cup CallsOf("run") :
            /\ op.cli_provider # None => ProviderGiven(calls[i]) = op.cli_provider
            /\ (op.cli_provider = None /\ Len(getSupportedProviders(fs)) = 1) =>
                  ProviderGiven(calls[i]) = getSupportedProviders(fs)[1]

\* the document the method is about to hand to _write_answers (lines
\* 168-170, 199-204, 247-254)
HandedToWrite == get_runtime_answers(Config, op.cli_provider).ret

\* a string argument or value that is there: neither None nor empty
Given(v) == v # None /\ v # ""

\* the global section of doc, empty when doc has none
GlobalOf(doc) == IF Has(doc, GLOBAL_CONF) THEN doc[GLOBAL_CONF] ELSE EmptyDict

\* out is what the claim says _get_runtime_answers(in, p) returns
RuntimeAnswersOf(in, p, out) ==
    /\ Has(out, GLOBAL_CONF)
    /\ Has(out[GLOBAL_CONF], NAMESPACE_KEY)
    /\ out[GLOBAL_CONF][NAMESPACE_KEY] =
          IF Given(GlobalGet(in, NAMESPACE_KEY)) THEN in[GLOBAL_CONF][NAMESPACE_KEY]
          ELSE DEFAULT_NAMESPACE
    /\ IF Given(p)
       THEN GlobalGet(out, PROVIDER_KEY) = p
       ELSE /\ Has(out[GLOBAL_CONF], PROVIDER_KEY) <=> Has(GlobalOf(in), PROVIDER_KEY)
            /\ GlobalGet(out, PROVIDER_KEY) = GlobalGet(in, PROVIDER_KEY)
    /\ DOMAIN out[GLOBAL_CONF] \ {NAMESPACE_KEY, PROVIDER_KEY}
          = DOMAIN GlobalOf(in) \ {NAMESPACE_KEY, PROVIDER_KEY}
    /\ \A k \in DOMAIN GlobalOf(in) \ {NAMESPACE_KEY, PROVIDER_KEY} :
          out[GLOBAL_CONF][k] = in[GLOBAL_CONF][k]
    /\ DOMAIN out = DOMAIN in \cup {GLOBAL_CONF}
    /\ \A sec \in DOMAIN in \ {GLOBAL_CONF} : out[sec] = in[sec]

\* C19: the document _get_runtime_answers returns has the input's namespace
\* when that is present and non-empty and the default namespace otherwise,
\* the provider p when p is given and the input's provider (or none)
\* otherwise, and the input's value for every other section and key; and
\* every document genanswers, install or run hands to _write_answers, and
\* every file they have written when they return, has a global section with
\* a non-empty namespace.
C19_RuntimeAnswersDefaults ==
    /\ rt.pc \in {"once", "twice"} =>
          /\ RuntimeAnswersOf(rt.before, rt.cli_provider, rt.first)
          /\ Given(GlobalGet(rt.first, NAMESPACE_KEY))
    /\ pc \in {"gen_write", "install_write", "run_write"} =>
          Given(GlobalGet(HandedToWrite, NAMESPACE_KEY))
    /\ (pc = "done" /\ err = None /\ op.name \in {"genanswers", "install", "run"}) =>
          /\ written # <<>>
          /\ \A i \in 1..Len(written) :
                /\ isfile(fs, written[i])
                /\ Given(GlobalGet(fs[written[i]].data, NAMESPACE_KEY))

\* C19 witness: a document with an empty namespace, a provider, another
\* global key and a component section, called with an explicit provider,
\* comes back with the default namespace, that provider and the rest as given.
C19_Witness ==
    /\ rt.pc = "once"
    /\ rt.cli_provider = "kubernetes"
    /\ GlobalGet(rt.before, NAMESPACE_KEY) = ""
    /\ GlobalGet(rt.before, PROVIDER_KEY) = "docker"
    /\ GlobalGet(rt.before, "accesstoken") = "file-ns"
    /\ Has(rt.before, "mariadb")
    /\ GlobalGet(rt.first, NAMESPACE_KEY) = DEFAULT_NAMESPACE
    /\ GlobalGet(rt.first, PROVIDER_KEY) = "kubernetes"
    /\ GlobalGet(rt.first, "accesstoken") = "file-ns"
    /\ rt.first["mariadb"] = rt.before["mariadb"]

====
